---- MODULE Spec2Model ----
(***************************************************************************)
(* A model of the rope of maggi-lan/tim (src/editor.c): heap-allocated     *)
(* RopeNode structs addressed by pointer, the metadata recomputation, the  *)
(* AVL rotations, rebalance, the join-based concat and the load_file       *)
(* builder loop; and of the builder of the earlier revision                *)
(* (src/unnamed/part_000), which appends with append_node.                 *)
(*                                                                         *)
(* A pointer is a natural number: NULL is 0 and the k-th node handed out   *)
(* by calloc has address k, so the heap is the sequence of the nodes       *)
(* allocated so far.  A C string is the sequence of the bytes of its       *)
(* allocation, terminator included; a char* field is <<>> when it is NULL  *)
(* and <<s>> when it points at the string s.                               *)
(***************************************************************************)
EXTENDS Integers, Sequences, FiniteSets, TLC

VARIABLES heap, ropes, last, src, root, done

vars == <<heap, ropes, last, src, root, done>>

(* ------------------------------ bounds --------------------------------- *)

\* leaves a client creates before it stops creating
MaxLeaves == 6

\* ropes a client holds at the same time
MaxRopes == 4

\* bytes of the longest file the builder reads
MaxFileLen == 7

\* leaves of the ropes a client dumps
MaxDumpLeaves == 3

(* ----------------------------- constants ------------------------------- *)

NULL == 0

CHUNK_SIZE == 2

\* the characters of a leaf the dump shows
PreviewLen == 20

NUL == "NUL"

NL == "\n"

\* the bytes a file is made of
Bytes == {"a", NL, NUL}

\* the texts a client passes to create_leaf (C strings, terminator included)
Texts == {<<"a", NUL>>, <<NL, "b", NL, NUL>>}

MAX(a, b) == IF a > b THEN a ELSE b

\* calloc(1, sizeof(RopeNode)): every field zero
RopeNode ==
  [weight |-> 0, total_len |-> 0, str |-> <<>>, height |-> 0, newlines |-> 0,
   left |-> NULL, right |-> NULL, parent |-> NULL]

\* the address calloc returns on heap h
calloc(h) == Len(h) + 1

(* ------------------------------ helpers -------------------------------- *)

is_leaf(h, node) ==
  IF node = NULL THEN FALSE
  ELSE IF h[node].left = NULL /\ h[node].right = NULL THEN TRUE
  ELSE FALSE

node_height(h, node) == IF node # NULL THEN h[node].height ELSE 0

\* strlen: the number of bytes before the first terminator
RECURSIVE strlen_from(_, _)
strlen_from(s, i) == IF s[i + 1] = NUL THEN i ELSE strlen_from(s, i + 1)

strlen(s) == strlen_from(s, 0)

string_length(str) == IF str # <<>> THEN strlen(str[1]) ELSE 0

RECURSIVE count_newlines_loop(_, _, _)
count_newlines_loop(s, i, count) ==
  IF s[i + 1] = NUL THEN count
  ELSE count_newlines_loop(s, i + 1, IF s[i + 1] = NL THEN count + 1 ELSE count)

\* the loop leaves at the first newline it meets
count_newlines_first(str) ==
  IF str = <<>> THEN 0
  ELSE IF count_newlines_loop(str[1], 0, 0) > 0 THEN 1 ELSE 0

count_newlines(str) == IF str = <<>> THEN 0 ELSE count_newlines_loop(str[1], 0, 0)

\* an internal node's weight taken from both children instead of the left one
update_metadata_weight(h, node) ==
  IF node = NULL THEN h
  ELSE IF is_leaf(h, node) THEN
    [h EXCEPT ![node].total_len = string_length(h[node].str),
              ![node].weight = string_length(h[node].str),
              ![node].height = 1,
              ![node].newlines = count_newlines(h[node].str)]
  ELSE
    LET left_len == IF h[node].left # NULL THEN h[h[node].left].total_len ELSE 0
        right_len == IF h[node].right # NULL THEN h[h[node].right].total_len ELSE 0
    IN [h EXCEPT ![node].total_len = left_len + right_len,
                 ![node].weight = left_len + right_len,
                 ![node].height = 1 + MAX(node_height(h, h[node].left),
                                          node_height(h, h[node].right)),
                 ![node].newlines =
                     (IF h[node].left # NULL THEN h[h[node].left].newlines ELSE 0)
                   + (IF h[node].right # NULL THEN h[h[node].right].newlines ELSE 0)]

update_metadata(h, node) ==
  IF node = NULL THEN h
  ELSE IF is_leaf(h, node) THEN
    [h EXCEPT ![node].total_len = string_length(h[node].str),
              ![node].weight = string_length(h[node].str),
              ![node].height = 1,
              ![node].newlines = count_newlines(h[node].str)]
  ELSE
    LET left_len == IF h[node].left # NULL THEN h[h[node].left].total_len ELSE 0
        right_len == IF h[node].right # NULL THEN h[h[node].right].total_len ELSE 0
    IN [h EXCEPT ![node].total_len = left_len + right_len,
                 ![node].weight = left_len,
                 ![node].height = 1 + MAX(node_height(h, h[node].left),
                                          node_height(h, h[node].right)),
                 ![node].newlines =
                     (IF h[node].left # NULL THEN h[h[node].left].newlines ELSE 0)
                   + (IF h[node].right # NULL THEN h[h[node].right].newlines ELSE 0)]

\* malloc(strlen(src) + 1) and strcpy: the bytes up to and with the terminator
string_copy(s) == SubSeq(s, 1, strlen(s) + 1)

\* printf("%s", str): the bytes before the terminator
puts(s) == SubSeq(s, 1, strlen(s))

RECURSIVE print_text(_, _)
print_text(h, node) ==
  IF node = NULL THEN <<>>
  ELSE IF is_leaf(h, node) THEN puts(h[node].str[1])
  ELSE print_text(h, h[node].left) \o print_text(h, h[node].right)

\* heap and returned pointer of an operation
Ret(h, p) == [heap |-> h, ret |-> p]

\* calloc; node->str = string_copy(text); update_metadata(node)
create_leaf(h, text) ==
  Ret(update_metadata(
        [Append(h, RopeNode) EXCEPT ![calloc(h)].str = <<string_copy(text)>>],
        calloc(h)),
      calloc(h))

get_skew(h, node) ==
  IF node = NULL THEN 0
  ELSE node_height(h, h[node].right) - node_height(h, h[node].left)

(* ---------------------------- AVL balancing ----------------------------- *)

\* the assignments node->left = v, node->right = v, node->parent = v
set_left(h, node, v) == [h EXCEPT ![node].left = v]

set_right(h, node, v) == [h EXCEPT ![node].right = v]

set_parent(h, node, v) == [h EXCEPT ![node].parent = v]

\* if (parent != NULL): the slot of parent that held old now holds new
shift_parent(h, parent, old, new) ==
  IF parent # NULL
  THEN IF h[parent].left = old THEN set_left(h, parent, new)
       ELSE set_right(h, parent, new)
  ELSE h

\* B dropped instead of handed over
move_B_left_dropped(h, y, B) ==
  IF B # NULL THEN set_left(h, y, NULL) ELSE h

\* if (B != NULL) { y->left = B; B->parent = y; }
move_B_left(h, y, B) ==
  IF B # NULL THEN set_parent(set_left(h, y, B), B, y) ELSE h

\* B handed over without B->parent = x
move_B_right_no_parent(h, x, B) ==
  IF B # NULL THEN set_right(h, x, B) ELSE h

\* if (B != NULL) { x->right = B; B->parent = x; }
move_B_right(h, x, B) ==
  IF B # NULL THEN set_parent(set_right(h, x, B), B, x) ELSE h

\* each line of the body is one statement group of the code, innermost first:
\*   y->parent = NULL; x->parent = parent; the parent's slot;
\*   x->right = y; y->parent = x; move B; update_metadata(y); update_metadata(x)
rotate_right(h, node) ==
  IF node = NULL \/ h[node].left = NULL THEN Ret(h, NULL)
  ELSE
    LET y == node
        x == h[node].left
        B == h[h[node].left].right
        parent == h[node].parent
    IN Ret(update_metadata(update_metadata(
             move_B_left(
               set_parent(set_right(
                 shift_parent(
                   set_parent(set_parent(h, y, NULL), x, parent),
                   parent, y, x),
                 x, y), y, x),
               y, B),
             y), x),
           x)

\* rotate_left without its update_metadata(x)
rotate_left_stale(h, node) ==
  IF node = NULL \/ h[node].right = NULL THEN Ret(h, NULL)
  ELSE
    LET x == node
        y == h[node].right
        B == h[h[node].right].left
        parent == h[node].parent
    IN Ret(update_metadata(
             move_B_right(
               set_parent(set_left(
                 shift_parent(
                   set_parent(set_parent(h, x, NULL), y, parent),
                   parent, x, y),
                 y, x), x, y),
               x, B),
             y),
           y)

\* the mirror image:
\*   x->parent = NULL; y->parent = parent; the parent's slot;
\*   y->left = x; x->parent = y; move B; update_metadata(x); update_metadata(y)
rotate_left(h, node) ==
  IF node = NULL \/ h[node].right = NULL THEN Ret(h, NULL)
  ELSE
    LET x == node
        y == h[node].right
        B == h[h[node].right].left
        parent == h[node].parent
    IN Ret(update_metadata(update_metadata(
             move_B_right(
               set_parent(set_left(
                 shift_parent(
                   set_parent(set_parent(h, x, NULL), y, parent),
                   parent, x, y),
                 y, x), x, y),
               x, B),
             x), y),
           y)

\* update_metadata(result) on the pointer a rotation returned
updated(result) == Ret(update_metadata(result.heap, result.ret), result.ret)

\* the double rotations left out: one rotation whatever the child's skew
rebalance_skew_single(h, node) ==
  IF get_skew(h, node) = 2 THEN updated(rotate_left(h, node))
  ELSE IF get_skew(h, node) = -2 THEN updated(rotate_right(h, node))
  ELSE Ret(h, node)

\* the left-heavy half left out
rebalance_skew_right_only(h, node) ==
  IF get_skew(h, node) = 2 THEN
    IF get_skew(h, h[node].right) = 1 \/ get_skew(h, h[node].right) = 0 THEN
      updated(rotate_left(h, node))
    ELSE IF get_skew(h, h[node].right) = -1 THEN
      updated(rotate_left(updated(rotate_right(h, h[node].right)).heap, node))
    ELSE Ret(h, node)
  ELSE Ret(h, node)

\* a heavy child of skew 0 handled with the double rotation
rebalance_skew_zero_double(h, node) ==
  IF get_skew(h, node) = 2 THEN
    IF get_skew(h, h[node].right) = 1 THEN
      updated(rotate_left(h, node))
    ELSE IF get_skew(h, h[node].right) = -1 \/ get_skew(h, h[node].right) = 0 THEN
      updated(rotate_left(updated(rotate_right(h, h[node].right)).heap, node))
    ELSE Ret(h, node)
  ELSE IF get_skew(h, node) = -2 THEN
    IF get_skew(h, h[node].left) = -1 THEN
      updated(rotate_right(h, node))
    ELSE IF get_skew(h, h[node].left) = 1 \/ get_skew(h, h[node].left) = 0 THEN
      updated(rotate_right(updated(rotate_left(h, h[node].left)).heap, node))
    ELSE Ret(h, node)
  ELSE Ret(h, node)

\* rebalance after its update_metadata(node): the cases of the skew
rebalance_skew(h, node) ==
  IF get_skew(h, node) = 2 THEN
    IF get_skew(h, h[node].right) = 1 \/ get_skew(h, h[node].right) = 0 THEN
      updated(rotate_left(h, node))
    ELSE IF get_skew(h, h[node].right) = -1 THEN
      updated(rotate_left(updated(rotate_right(h, h[node].right)).heap, node))
    ELSE Ret(h, node)
  ELSE IF get_skew(h, node) = -2 THEN
    IF get_skew(h, h[node].left) = -1 \/ get_skew(h, h[node].left) = 0 THEN
      updated(rotate_right(h, node))
    ELSE IF get_skew(h, h[node].left) = 1 THEN
      updated(rotate_right(updated(rotate_left(h, h[node].left)).heap, node))
    ELSE Ret(h, node)
  ELSE Ret(h, node)

\* a rebalance that never rotates
rebalance_none(h, node) ==
  IF node = NULL THEN Ret(h, NULL)
  ELSE Ret(update_metadata(h, node), node)

rebalance(h, node) ==
  IF node = NULL THEN Ret(h, NULL)
  ELSE rebalance_skew(update_metadata(h, node), node)

(* ------------------------------- concat -------------------------------- *)

RECURSIVE concat(_, _, _)

\* the two children stored in each other's slot
concat_case1_swapped(h, left_subtree, right_subtree) ==
  Ret(set_parent(set_parent(
        update_metadata(
          set_right(set_left(Append(h, RopeNode), calloc(h), right_subtree),
                    calloc(h), left_subtree),
          calloc(h)),
        left_subtree, calloc(h)), right_subtree, calloc(h)),
      calloc(h))

\* CASE-1: a new internal node over the two subtrees:
\*   calloc; node->left; node->right; update_metadata(node); the two parents
concat_case1(h, left_subtree, right_subtree) ==
  Ret(set_parent(set_parent(
        update_metadata(
          set_right(set_left(Append(h, RopeNode), calloc(h), left_subtree),
                    calloc(h), right_subtree),
          calloc(h)),
        left_subtree, calloc(h)), right_subtree, calloc(h)),
      calloc(h))

\* right_subtree->left = sub; its parent pointer if it is not NULL;
\* update_metadata(right_subtree)
link_left(sub, right_subtree) ==
  update_metadata(
    IF sub.ret # NULL
    THEN set_parent(set_left(sub.heap, right_subtree, sub.ret), sub.ret, right_subtree)
    ELSE set_left(sub.heap, right_subtree, sub.ret),
    right_subtree)

\* ... return rebalance(right_subtree)
join_left(sub, right_subtree) ==
  rebalance(link_left(sub, right_subtree), right_subtree)

\* left_subtree->right = sub; its parent pointer if it is not NULL;
\* update_metadata(left_subtree)
link_right(sub, left_subtree) ==
  update_metadata(
    IF sub.ret # NULL
    THEN set_parent(set_right(sub.heap, left_subtree, sub.ret), sub.ret, left_subtree)
    ELSE set_right(sub.heap, left_subtree, sub.ret),
    left_subtree)

\* ... return rebalance(left_subtree)
join_right(sub, left_subtree) ==
  rebalance(link_right(sub, left_subtree), left_subtree)

\* CASE-2 descending the right spine of the right subtree
concat_case2_right_spine(h, left_subtree, right_subtree) ==
  join_left(concat(h, left_subtree, h[right_subtree].right), right_subtree)

\* CASE-2: the right subtree is heavier, descend its left spine
concat_case2(h, left_subtree, right_subtree) ==
  join_left(concat(h, left_subtree, h[right_subtree].left), right_subtree)

\* CASE-3: the left subtree is heavier, descend its right spine
concat_case3(h, left_subtree, right_subtree) ==
  join_right(concat(h, h[left_subtree].right, right_subtree), left_subtree)

\* the skew taken with the wrong sign
concat_skew_flipped(h, left_subtree, right_subtree) ==
  node_height(h, left_subtree) - node_height(h, right_subtree)

\* the skew taken one too far to the right
concat_skew_shifted(h, left_subtree, right_subtree) ==
  node_height(h, right_subtree) - node_height(h, left_subtree) + 1

\* int skew = node_height(right_subtree) - node_height(left_subtree)
concat_skew(h, left_subtree, right_subtree) ==
  node_height(h, right_subtree) - node_height(h, left_subtree)

\* the empty right argument not returned early: a node over L alone
concat_no_edge(h, left_subtree, right_subtree) ==
  IF left_subtree = NULL THEN Ret(h, right_subtree)
  ELSE IF right_subtree = NULL
    THEN Ret(set_parent(update_metadata(set_left(Append(h, RopeNode), calloc(h),
                                                 left_subtree), calloc(h)),
                        left_subtree, calloc(h)),
             calloc(h))
  ELSE IF concat_skew(h, left_subtree, right_subtree) >= -1
          /\ concat_skew(h, left_subtree, right_subtree) <= 1
    THEN concat_case1(h, left_subtree, right_subtree)
  ELSE IF concat_skew(h, left_subtree, right_subtree) >= 2
    THEN concat_case2(h, left_subtree, right_subtree)
  ELSE concat_case3(h, left_subtree, right_subtree)

\* the first early return hands back the wrong argument
concat_wrong_return(h, left_subtree, right_subtree) ==
  IF left_subtree = NULL THEN Ret(h, left_subtree)
  ELSE IF right_subtree = NULL THEN Ret(h, left_subtree)
  ELSE IF concat_skew(h, left_subtree, right_subtree) >= -1
          /\ concat_skew(h, left_subtree, right_subtree) <= 1
    THEN concat_case1(h, left_subtree, right_subtree)
  ELSE IF concat_skew(h, left_subtree, right_subtree) >= 2
    THEN concat_case2(h, left_subtree, right_subtree)
  ELSE concat_case3(h, left_subtree, right_subtree)

concat(h, left_subtree, right_subtree) ==
  IF left_subtree = NULL THEN Ret(h, right_subtree)
  ELSE IF right_subtree = NULL THEN Ret(h, left_subtree)
  ELSE IF concat_skew(h, left_subtree, right_subtree) >= -1
          /\ concat_skew(h, left_subtree, right_subtree) <= 1
    THEN concat_case1(h, left_subtree, right_subtree)
  ELSE IF concat_skew(h, left_subtree, right_subtree) >= 2
    THEN concat_case2(h, left_subtree, right_subtree)
  ELSE IF concat_skew(h, left_subtree, right_subtree) <= -2
    THEN concat_case3(h, left_subtree, right_subtree)
  ELSE Ret(h, NULL)

\* the chain of calls concat(left_subtree, right_subtree) makes: the recursive
\* call of CASE-2 and CASE-3 is made before any node is written, so the whole
\* chain runs on the heap of the first call.  Each entry is the pair of
\* arguments of one call and the way that call ends; a chain of more than
\* fuel calls is cut with "unfinished".
RECURSIVE concat_calls(_, _, _, _)
concat_calls(h, left_subtree, right_subtree, fuel) ==
  IF fuel = 0
    THEN <<[l |-> left_subtree, r |-> right_subtree, end |-> "unfinished"]>>
  ELSE IF left_subtree = NULL \/ right_subtree = NULL
    THEN <<[l |-> left_subtree, r |-> right_subtree, end |-> "edge"]>>
  ELSE IF concat_skew(h, left_subtree, right_subtree) >= -1
          /\ concat_skew(h, left_subtree, right_subtree) <= 1
    THEN <<[l |-> left_subtree, r |-> right_subtree, end |-> "CASE-1"]>>
  ELSE IF concat_skew(h, left_subtree, right_subtree) >= 2
    THEN <<[l |-> left_subtree, r |-> right_subtree, end |-> "CASE-2"]>>
         \o concat_calls(h, left_subtree, h[right_subtree].left, fuel - 1)
  ELSE IF concat_skew(h, left_subtree, right_subtree) <= -2
    THEN <<[l |-> left_subtree, r |-> right_subtree, end |-> "CASE-3"]>>
         \o concat_calls(h, h[left_subtree].right, right_subtree, fuel - 1)
  ELSE <<[l |-> left_subtree, r |-> right_subtree, end |-> "return NULL"]>>

\* what a call rebalance(node) meets on heap h: the skew of node after its
\* update_metadata, the skew of the child a rotation would lift, and whether
\* every rotation the call makes finds the child it needs (a rotation that
\* does not returns NULL)
rebalance_entry(h, node) ==
  [skew |-> get_skew(update_metadata(h, node), node),
   heavy |-> IF get_skew(update_metadata(h, node), node) >= 0
             THEN get_skew(h, h[node].right)
             ELSE get_skew(h, h[node].left),
   found |-> rebalance(h, node).ret # NULL]

\* the calls of rebalance concat(left_subtree, right_subtree) makes, innermost
\* first: one in every CASE-2 and CASE-3 call, on the heap its recursive call
\* and the re-link have left
RECURSIVE concat_rebalances(_, _, _)
concat_rebalances(h, left_subtree, right_subtree) ==
  IF left_subtree = NULL \/ right_subtree = NULL THEN <<>>
  ELSE IF concat_skew(h, left_subtree, right_subtree) >= -1
          /\ concat_skew(h, left_subtree, right_subtree) <= 1
    THEN <<>>
  ELSE IF concat_skew(h, left_subtree, right_subtree) >= 2
    THEN Append(concat_rebalances(h, left_subtree, h[right_subtree].left),
                rebalance_entry(
                  link_left(concat(h, left_subtree, h[right_subtree].left),
                            right_subtree),
                  right_subtree))
  ELSE IF concat_skew(h, left_subtree, right_subtree) <= -2
    THEN Append(concat_rebalances(h, h[left_subtree].right, right_subtree),
                rebalance_entry(
                  link_right(concat(h, h[left_subtree].right, right_subtree),
                             left_subtree),
                  left_subtree))
  ELSE <<>>

(* --------------------------- the client's ropes ------------------------ *)

\* leaves on the heap
Leaves(h) == {n \in 1..Len(h) : h[n].str # <<>>}

\* the record of the last call: its arguments, their heights on entry, its result
Call(op, h, l, r, ret) ==
  [op |-> op, l |-> l, r |-> r, ret |-> ret,
   hl |-> node_height(h, l), hr |-> node_height(h, r)]

Init ==
  /\ heap = <<>>
  /\ ropes = <<>>
  /\ last = Call("none", <<>>, NULL, NULL, NULL)
  /\ src = <<>>
  /\ root = NULL
  /\ done = FALSE

\* the k-th rope from the top of the client's stack of ropes
Top(k) == ropes[Len(ropes) + 1 - k]

\* a client calls create_leaf(text) and keeps the leaf as a rope of its own
CreateLeaf(text) ==
  /\ Cardinality(Leaves(heap)) < MaxLeaves
  /\ Len(ropes) < MaxRopes
  /\ LET c == create_leaf(heap, text) IN
       /\ heap' = c.heap
       /\ ropes' = Append(ropes, c.ret)
       /\ last' = Call("create_leaf", heap, NULL, NULL, c.ret)
  /\ UNCHANGED <<src, root, done>>

\* a client joins its two newest ropes, the older one on the left (node
\* addresses are interchangeable, so every ordered pair of ropes is covered)
Concat ==
  /\ Len(ropes) >= 2
  /\ LET c == concat(heap, Top(2), Top(1)) IN
       /\ heap' = c.heap
       /\ ropes' = Append(SubSeq(ropes, 1, Len(ropes) - 2), c.ret)
       /\ last' = Call("concat", heap, Top(2), Top(1), c.ret)
  /\ UNCHANGED <<src, root, done>>

\* concat(empty, R)
ConcatEmptyLeft ==
  /\ Len(ropes) >= 1
  /\ LET c == concat(heap, NULL, Top(1)) IN
       /\ heap' = c.heap
       /\ ropes' = [ropes EXCEPT ![Len(ropes)] = c.ret]
       /\ last' = Call("concat", heap, NULL, Top(1), c.ret)
  /\ UNCHANGED <<src, root, done>>

\* concat(L, empty)
ConcatEmptyRight ==
  /\ Len(ropes) >= 1
  /\ LET c == concat(heap, Top(1), NULL) IN
       /\ heap' = c.heap
       /\ ropes' = [ropes EXCEPT ![Len(ropes)] = c.ret]
       /\ last' = Call("concat", heap, Top(1), NULL, c.ret)
  /\ UNCHANGED <<src, root, done>>

\* concat(empty, empty)
ConcatEmpty ==
  /\ LET c == concat(heap, NULL, NULL) IN
       /\ heap' = c.heap
       /\ last' = Call("concat", heap, NULL, NULL, c.ret)
  /\ UNCHANGED <<ropes, src, root, done>>

Next ==
  \/ \E text \in Texts : CreateLeaf(text)
  \/ Concat
  \/ ConcatEmptyLeft
  \/ ConcatEmptyRight
  \/ ConcatEmpty

Spec == Init /\ [][Next]_vars

(* ------------------------------ load_file ------------------------------ *)

\* the chunks fread can deliver: 1..CHUNK_SIZE bytes of the file
Chunks == UNION {[1..n -> Bytes] : n \in 1..CHUNK_SIZE}

\* leaf = create_leaf(buffer); root = concat(root, leaf)
append_leaf(leaf, r) == concat(leaf.heap, r, leaf.ret)

append_chunk(h, r, buffer) == append_leaf(create_leaf(h, buffer), r)

\* one round of the loop of load_file: fread delivers n > 0 bytes, the buffer
\* is terminated after them, a leaf is made of it and appended to the rope
ReadChunk(bytes) ==
  /\ ~done
  /\ Len(src) + Len(bytes) <= MaxFileLen
  /\ heap' = append_chunk(heap, root, Append(bytes, NUL)).heap
  /\ root' = append_chunk(heap, root, Append(bytes, NUL)).ret
  /\ last' = Call("concat", create_leaf(heap, Append(bytes, NUL)).heap,
                   root, calloc(heap), root')
  /\ src' = src \o bytes
  /\ UNCHANGED <<ropes, done>>

\* fread delivers 0 bytes: the loop ends and load_file returns root
EndOfFile ==
  /\ ~done
  /\ done' = TRUE
  /\ UNCHANGED <<heap, ropes, last, src, root>>

LoadNext ==
  \/ \E bytes \in Chunks : ReadChunk(bytes)
  \/ EndOfFile

LoadSpec == Init /\ [][LoadNext]_vars

(* ------------- the builder of the earlier revision: append_node --------- *)

\* concat of src/unnamed/part_000: the edge cases, then a new node over the
\* two subtrees whatever their heights:
\*   calloc; node->left; node->right; update_metadata(node); the two parents
concat_part_000(h, left, right) ==
  IF left = NULL THEN Ret(h, right)
  ELSE IF right = NULL THEN Ret(h, left)
  ELSE Ret(set_parent(set_parent(
             update_metadata(
               set_right(set_left(Append(h, RopeNode), calloc(h), left),
                         calloc(h), right),
               calloc(h)),
             left, calloc(h)), right, calloc(h)),
           calloc(h))

\* while (!is_leaf(right_most->right)) right_most = right_most->right
RECURSIVE right_most(_, _)
right_most(h, node) ==
  IF is_leaf(h, h[node].right) THEN node ELSE right_most(h, h[node].right)

\* for (node = new_node; node != NULL; node = node->parent):
\*   root = rebalance(node) if node has no parent, rebalance(node) otherwise
RECURSIVE fix_up(_, _, _)

\* node = node->parent after a rebalance(node) whose result is dropped
fix_up_inner(result, node, root_node) ==
  fix_up(result.heap, result.heap[node].parent, root_node)

\* node = node->parent after root = rebalance(node)
fix_up_root(result, node) ==
  fix_up(result.heap, result.heap[node].parent, result.ret)

\* the loop that stops at the first node above new_node that needs no rotation
fix_up_first(h, node, root_node) ==
  IF node = NULL THEN Ret(h, root_node)
  ELSE IF h[node].parent = NULL THEN rebalance(h, node)
  ELSE IF rebalance(h, node).ret = node
    THEN Ret(rebalance(h, node).heap, root_node)
  ELSE fix_up_inner(rebalance(h, node), node, root_node)

fix_up(h, node, root_node) ==
  IF node = NULL THEN Ret(h, root_node)
  ELSE IF h[node].parent = NULL THEN fix_up_root(rebalance(h, node), node)
  ELSE fix_up_inner(rebalance(h, node), node, root_node)

\* right_most->right = new_node; new_node->parent = right_most;
\* update_metadata(right_most); then the loop from new_node up
attach(pair, at, root_node) ==
  fix_up(update_metadata(
           set_parent(set_right(pair.heap, at, pair.ret), pair.ret, at),
           at),
         pair.ret, root_node)

append_node(h, root_node, leaf) ==
  IF root_node = NULL THEN Ret(h, leaf)
  ELSE IF is_leaf(h, root_node) THEN concat_part_000(h, root_node, leaf)
  ELSE attach(concat_part_000(h, h[right_most(h, root_node)].right, leaf),
              right_most(h, root_node), root_node)

\* the root the earlier revision has built: the one rope the client holds
appended == IF ropes = <<>> THEN NULL ELSE ropes[1]

\* leaf = create_leaf(buffer); root = append_node(root, leaf)
append_node_chunk(h, r, buffer) ==
  append_node(create_leaf(h, buffer).heap, r, create_leaf(h, buffer).ret)

\* one round of the loop of load_file in both revisions on the same chunk:
\* the join-based builder folds it into root, the earlier revision into the
\* rope it has built with append_node
ReadChunkBoth(bytes) ==
  /\ ~done
  /\ Len(src) + Len(bytes) <= MaxFileLen
  /\ heap' = append_node_chunk(append_chunk(heap, root, Append(bytes, NUL)).heap,
                                appended, Append(bytes, NUL)).heap
  /\ root' = append_chunk(heap, root, Append(bytes, NUL)).ret
  /\ ropes' = <<append_node_chunk(append_chunk(heap, root, Append(bytes, NUL)).heap,
                                   appended, Append(bytes, NUL)).ret>>
  /\ last' = Call("append_node", heap, appended, NULL, ropes'[1])
  /\ src' = src \o bytes
  /\ UNCHANGED done

AppendNext ==
  \/ \E bytes \in Chunks : ReadChunkBoth(bytes)
  \/ EndOfFile

AppendSpec == Init /\ [][AppendNext]_vars

(* ------------------------------ print_tree ----------------------------- *)

\* a text of n letters, and the texts of the leaves a client dumps: shorter
\* than the preview, one short of it, as long, and longer
Letters(n) == [i \in 1..n |-> "a"] \o <<NUL>>

PreviewTexts == {Letters(1), Letters(PreviewLen - 1), Letters(PreviewLen),
                 Letters(PreviewLen + 1)}

\* str[i] of a string whose allocation holds Len(s) bytes: the byte stored
\* there, or, outside the allocation, whatever byte the memory behind it holds
byte_at(s, i, beyond) == IF i < Len(s) THEN s[i + 1] ELSE beyond

\* the positions of str the preview reads: the loop reads str[i] for
\* i = 0, 1, ... until i = 20 or str[i] is the terminator; then str[20] is read
preview_reads(s) ==
  (0..(IF strlen(s) < PreviewLen THEN strlen(s) ELSE PreviewLen - 1))
    \cup {PreviewLen}

\* the characters putchar prints, and whether "..." follows them
preview(s, beyond) ==
  [text |-> SubSeq(s, 1, IF strlen(s) < PreviewLen THEN strlen(s) ELSE PreviewLen),
   dots |-> byte_at(s, PreviewLen, beyond) # NUL]

\* the line print_tree_rec prints for node, and the positions of node->str
\* it has read for it
dump_line(h, node, depth, branch, beyond) ==
  [depth |-> depth, branch |-> branch, node |-> node,
   h |-> h[node].height, w |-> h[node].weight, len |-> h[node].total_len,
   nl |-> h[node].newlines,
   leaf |-> IF h[node].str # <<>> THEN <<preview(h[node].str[1], beyond)>> ELSE <<>>,
   reads |-> IF h[node].str # <<>> THEN preview_reads(h[node].str[1]) ELSE {},
   parent |-> h[node].parent]

RECURSIVE print_tree_rec(_, _, _, _, _)
print_tree_rec(h, node, depth, branch, beyond) ==
  IF node = NULL THEN <<>>
  ELSE <<dump_line(h, node, depth, branch, beyond)>>
       \o print_tree_rec(h, h[node].left, depth + 1, "L", beyond)
       \o print_tree_rec(h, h[node].right, depth + 1, "R", beyond)

\* the lines between the two rules of the dump
print_tree(h, root_node, beyond) ==
  IF root_node = NULL THEN <<>>
  ELSE print_tree_rec(h, root_node, 0, "*", beyond)

DumpLeaf(text) ==
  /\ Cardinality(Leaves(heap)) < MaxDumpLeaves
  /\ CreateLeaf(text)

\* print_tree on the newest rope, or on no rope; no node is written
PrintTree(beyond) ==
  /\ heap' = heap
  /\ last' = [op |-> "print_tree",
              l |-> IF ropes = <<>> THEN NULL ELSE Top(1),
              r |-> NULL, ret |-> NULL,
              hl |-> IF ropes = <<>> THEN 0 ELSE node_height(heap, Top(1)),
              hr |-> 0,
              dump |-> print_tree(heap, IF ropes = <<>> THEN NULL ELSE Top(1),
                                  beyond)]
  /\ UNCHANGED <<ropes, src, root, done>>

DumpNext ==
  \/ \E text \in PreviewTexts : DumpLeaf(text)
  \/ Concat
  \/ \E beyond \in {"a", NUL} : PrintTree(beyond)

DumpSpec == Init /\ [][DumpNext]_vars

(* ------------------- what the claims speak about ----------------------- *)

\* the nodes reachable from n through child pointers (at most Len(h) deep)
RECURSIVE Descend(_, _, _)
Descend(h, n, fuel) ==
  IF n = NULL \/ fuel = 0 THEN {}
  ELSE {n} \cup Descend(h, h[n].left, fuel - 1) \cup Descend(h, h[n].right, fuel - 1)

Nodes(h, n) == Descend(h, n, Len(h))

\* the height of the subtree of n, counted from the child pointers
RECURSIVE Measure(_, _, _)
Measure(h, n, fuel) ==
  IF n = NULL \/ fuel = 0 THEN 0
  ELSE 1 + MAX(Measure(h, h[n].left, fuel - 1), Measure(h, h[n].right, fuel - 1))

Height(h, n) == Measure(h, n, Len(h))

Internal(h, n) == h[n].left # NULL \/ h[n].right # NULL

Abs(i) == IF i < 0 THEN -i ELSE i

\* a leaf: text and no child; an internal node: two children and no text
h_is_leaf(h, n) == h[n].left = NULL /\ h[n].right = NULL /\ h[n].str # <<>>

h_is_internal(h, n) == h[n].left # NULL /\ h[n].right # NULL /\ h[n].str = <<>>

\* every internal node below n has children whose heights differ by at most 1
AVL(h, n) ==
  \A m \in Nodes(h, n) :
    Internal(h, m) => Abs(Height(h, h[m].left) - Height(h, h[m].right)) <= 1

(* ------------------- rebalance and the rotations alone ------------------ *)

\* The units below concat, called the way concat calls them.  A client builds
\* AVL ropes with create_leaf and concat; then either a node is put over two
\* of them and rebalance is called on it, or a rotation is called on a node
\* of the newest rope.  done is set once a unit
\* has been entered: the client builds nothing after that.

BuildLeaf(text) == ~done /\ CreateLeaf(text)

BuildConcat == ~done /\ Concat

\* a node is allocated over the two newest ropes with the statements of
\* CASE-1, whatever their heights
Pair ==
  /\ ~done
  /\ Len(ropes) >= 2
  /\ heap' = concat_case1(heap, Top(2), Top(1)).heap
  /\ ropes' = Append(SubSeq(ropes, 1, Len(ropes) - 2), calloc(heap))
  /\ last' = Call("pair", heap, Top(2), Top(1), calloc(heap))
  /\ done' = TRUE
  /\ UNCHANGED <<src, root>>

\* return rebalance(node) on the node just allocated; the record of the call
\* keeps the two children of the node and their heights on entry
Rebalance ==
  /\ done
  /\ last.op = "pair"
  /\ heap' = rebalance(heap, Top(1)).heap
  /\ ropes' = [ropes EXCEPT ![Len(ropes)] = rebalance(heap, Top(1)).ret]
  /\ last' = Call("rebalance", heap, heap[Top(1)].left, heap[Top(1)].right,
                   rebalance(heap, Top(1)).ret)
  /\ UNCHANGED <<src, root, done>>

\* rotate_right(node) on a node of the newest rope
RotateRight(node) ==
  /\ ~done
  /\ Len(ropes) >= 1
  /\ node \in Nodes(heap, Top(1))
  /\ heap' = rotate_right(heap, node).heap
  /\ ropes' = IF node = Top(1) /\ rotate_right(heap, node).ret # NULL
              THEN [ropes EXCEPT ![Len(ropes)] = rotate_right(heap, node).ret]
              ELSE ropes
  /\ last' = Call("rotate_right", heap, node, NULL, rotate_right(heap, node).ret)
  /\ done' = TRUE
  /\ UNCHANGED <<src, root>>

\* rotate_left(node) on a node of the newest rope
RotateLeft(node) ==
  /\ ~done
  /\ Len(ropes) >= 1
  /\ node \in Nodes(heap, Top(1))
  /\ heap' = rotate_left(heap, node).heap
  /\ ropes' = IF node = Top(1) /\ rotate_left(heap, node).ret # NULL
              THEN [ropes EXCEPT ![Len(ropes)] = rotate_left(heap, node).ret]
              ELSE ropes
  /\ last' = Call("rotate_left", heap, node, NULL, rotate_left(heap, node).ret)
  /\ done' = TRUE
  /\ UNCHANGED <<src, root>>

UnitNext ==
  \/ \E text \in Texts : BuildLeaf(text)
  \/ BuildConcat
  \/ Pair
  \/ Rebalance
  \/ \E node \in 1..Len(heap) : RotateRight(node)
  \/ \E node \in 1..Len(heap) : RotateLeft(node)

UnitSpec == Init /\ [][UnitNext]_vars

\* the ropes the client holds, and the ropes it passed to the last concat
Held == {ropes[i] : i \in 1..Len(ropes)}

Occurrences(text, c) == Cardinality({i \in 1..Len(text) : text[i] = c})

(* ------------------------------- claims -------------------------------- *)

\* C1: order preservation: the text of concat(A, B) is the text of A followed
\* by the text of B, for all ropes A and B, either possibly empty.
OrderPreservation ==
  [][last'.op = "concat" =>
       print_text(heap', last'.ret)
         = print_text(heap, last'.l) \o print_text(heap, last'.r)]_vars

\* a join of a low rope into a rope at least two levels higher, whose text
\* holds letters and newlines
OrderPreservationWitness ==
  /\ last.op = "concat"
  /\ last.hl >= 1
  /\ last.hr >= last.hl + 2
  /\ Occurrences(print_text(heap, last.ret), "a") >= 1
  /\ Occurrences(print_text(heap, last.ret), NL) >= 1
  /\ Occurrences(print_text(heap, last.l), "a") = 0

\* C2: every internal node of a rope the builder has folded out of any
\* sequence of chunks has |height(left) - height(right)| <= 1, with no
\* fix-up after concat.
BuiltRopeIsAVL == AVL(heap, root)

\* seven chunks folded: the join has rotated, the rope has height 4
BuiltRopeIsAVLWitness ==
  /\ Cardinality(Leaves(heap)) = 7
  /\ Height(heap, root) = 4
  /\ AVL(heap, root)

\* C3: concat of two AVL ropes, whatever their height difference and
\* whichever side is higher, is a rope whose every internal node has
\* |height(left) - height(right)| <= 1.
JoinBalance == \A rope \in Held : AVL(heap, rope)

\* scenario E: L of height 1 joined with R of height 4
JoinBalanceWitness ==
  /\ last.op = "concat"
  /\ last.hl = 1
  /\ last.hr = 4
  /\ last.ret \in Held
  /\ AVL(heap, last.ret)

\* the stored metadata of node n is what its text or its children give
Derived(h, n) ==
  IF ~Internal(h, n)
  THEN /\ h[n].weight = Len(print_text(h, n))
       /\ h[n].total_len = Len(print_text(h, n))
       /\ h[n].height = 1
       /\ h[n].newlines = Occurrences(print_text(h, n), NL)
  ELSE /\ h[n].left # NULL /\ h[n].right # NULL
       /\ h[n].weight = h[h[n].left].total_len
       /\ h[n].total_len = h[h[n].left].total_len + h[h[n].right].total_len
       /\ h[n].height = 1 + MAX(h[h[n].left].height, h[h[n].right].height)
       /\ h[n].newlines = h[h[n].left].newlines + h[h[n].right].newlines

\* C4: metadata is never stale: after every create_leaf, concat or builder
\* step every node of a rope stores the derived weight, total_len, height and
\* newlines, and update_metadata on it changes nothing.
MetadataNeverStale ==
  \A rope \in Held : \A n \in Nodes(heap, rope) :
    Derived(heap, n) /\ update_metadata(heap, n) = heap

\* a join that rotated nodes of a rope with text of both kinds
MetadataNeverStaleWitness ==
  /\ last.op = "concat"
  /\ Abs(last.hl - last.hr) >= 2
  /\ last.hl >= 1 /\ last.hr >= 1
  /\ heap[last.ret].newlines >= 2
  /\ heap[last.ret].weight < heap[last.ret].total_len
  /\ \A n \in Nodes(heap, last.ret) : Derived(heap, n)

\* C5: strict binary shape: every node of a rope is a leaf with text and no
\* child, or an internal node with two children and no text.
StrictBinaryShape ==
  \A rope \in Held : \A n \in Nodes(heap, rope) :
    \/ h_is_leaf(heap, n)
    \/ h_is_internal(heap, n)

\* a join that rotated twice on the way up
StrictBinaryShapeWitness ==
  /\ last.op = "concat"
  /\ last.hl = 1
  /\ last.hr = 3
  /\ Height(heap, last.ret) = 3
  /\ \A n \in Nodes(heap, last.ret) : h_is_leaf(heap, n) \/ h_is_internal(heap, n)

\* C6: chunking invariance: however the source is split into chunks, the
\* rope the builder produces materializes to the source text itself.
ChunkingInvariance == print_text(heap, root) = src

\* what does hold of the builder: a source without terminator bytes is
\* materialized as it is, whatever the chunks
NulFree(text) == \A i \in 1..Len(text) : text[i] # NUL

TextChunkingInvariance == NulFree(src) => print_text(heap, root) = src

\* C7: newline correctness: the newline count stored at a rope's root is the
\* number of '\n' in its text, so line_count = newlines(root) + 1.
NewlineCorrectness ==
  \A rope \in Held :
    heap[rope].newlines + 1 = 1 + Occurrences(print_text(heap, rope), NL)

\* a joined rope of three leaves or more with four newlines or more
NewlineCorrectnessWitness ==
  /\ last.op = "concat"
  /\ last.hl >= 1
  /\ last.hr >= 2
  /\ last.ret \in Held
  /\ heap[last.ret].newlines >= 4
  /\ heap[last.ret].newlines = Occurrences(print_text(heap, last.ret), NL)

\* C8: identity law: concat(empty, R) returns R itself and concat(L, empty)
\* returns L itself, no node is allocated and no field of any node changes;
\* concat(empty, empty) returns empty.
IdentityLaw ==
  [][/\ (last'.op = "concat" /\ last'.l = NULL)
          => (last'.ret = last'.r /\ heap' = heap)
     /\ (last'.op = "concat" /\ last'.r = NULL)
          => (last'.ret = last'.l /\ heap' = heap)]_vars

\* concat(empty, R) has returned an R that has children
IdentityLawWitness ==
  /\ last.op = "concat"
  /\ last.l = NULL
  /\ last.r # NULL
  /\ last.hr >= 3
  /\ last.ret = last.r
  /\ Top(1) = last.r

\* C9: a rope of total length 0 is the absence of a root: no chunks give no
\* root, and the builder never produces a root of total length 0.
EmptyRopeHasNoRoot ==
  /\ src = <<>> => root = NULL
  /\ root # NULL => heap[root].total_len > 0

\* what does hold of the builder: no chunks give no root, and a source
\* without terminator bytes never gives a root of total length 0
TextRopeHasRoot ==
  /\ src = <<>> => root = NULL
  /\ (root # NULL /\ NulFree(src)) => heap[root].total_len > 0

RECURSIVE Fib(_)
Fib(k) == IF k <= 2 THEN 1 ELSE Fib(k - 1) + Fib(k - 2)

RECURSIVE Lucas(_)
Lucas(k) == IF k = 0 THEN 2 ELSE IF k = 1 THEN 1 ELSE Lucas(k - 1) + Lucas(k - 2)

\* phi^k >= m, in integers: phi^k = (Lucas(k) + Fib(k) * sqrt(5)) / 2
PhiPowerAtLeast(k, m) ==
  \/ 2 * m - Lucas(k) <= 0
  \/ 5 * Fib(k) * Fib(k) >= (2 * m - Lucas(k)) * (2 * m - Lucas(k))

\* ceil(log_phi(m)) for m >= 1: the least k with phi^k >= m
CeilLogPhi(m) == CHOOSE k \in 0..m : PhiPowerAtLeast(k, m) /\ \A j \in 0..(k - 1) : ~PhiPowerAtLeast(j, m)

LeafCount(h, n) == Cardinality(Nodes(h, n) \cap Leaves(h))

\* C10: height bound: a rope of n leaves has height <= ceil(log_phi(n + 2));
\* a rope of height h has at least Fib(h + 1) leaves.
HeightBound ==
  \A rope \in Held :
    /\ Height(heap, rope) <= CeilLogPhi(LeafCount(heap, rope) + 2)
    /\ LeafCount(heap, rope) >= Fib(Height(heap, rope) + 1)

\* a join across two levels or more whose result meets the bound exactly
HeightBoundWitness ==
  /\ last.op = "concat"
  /\ last.hl >= 1 /\ last.hr >= 1
  /\ Abs(last.hl - last.hr) >= 2
  /\ last.ret \in Held
  /\ Height(heap, last.ret) = 4
  /\ LeafCount(heap, last.ret) = Fib(5)

\* the descent by weight: at an internal node go left if i < weight, else go
\* right with i - weight; the leaf it ends at and the offset left over
RECURSIVE Route(_, _, _)
Route(h, n, i) ==
  IF n = NULL \/ ~Internal(h, n) THEN [leaf |-> n, i |-> i]
  ELSE IF i < h[n].weight THEN Route(h, h[n].left, i)
  ELSE Route(h, h[n].right, i - h[n].weight)

\* the descent for offset i below n ends inside a leaf, at the character the
\* materialized text has at offset i
Routed(h, n, i) ==
  LET at == Route(h, n, i) IN
    /\ at.leaf # NULL
    /\ h_is_leaf(h, at.leaf)
    /\ 0 <= at.i
    /\ at.i < Len(puts(h[at.leaf].str[1]))
    /\ puts(h[at.leaf].str[1])[at.i + 1] = print_text(h, n)[i + 1]

\* the ropes a client holds and the rope the builder has built
Produced == Held \cup ({root} \ {NULL})

\* C11: weight routes offsets: for every rope produced by the builder or by
\* concat and every offset i with 0 <= i < total_len(root), the descent by
\* weight ends at a leaf with 0 <= i < length of the leaf's text, and the
\* leaf's i-th character is the i-th character of the materialized text.
WeightRoutesOffsets ==
  \A rope \in Produced :
    \A i \in 0..(heap[rope].total_len - 1) : Routed(heap, rope, i)

\* a rotated join whose last offset is routed right at the root and then
\* left below it, to a leaf that is not the first
WeightRoutesOffsetsWitness ==
  /\ last.op = "concat"
  /\ Abs(last.hl - last.hr) >= 2
  /\ last.hl >= 1 /\ last.hr >= 1
  /\ last.ret \in Held
  /\ heap[last.ret].total_len >= 6
  /\ \E i \in 1..(heap[last.ret].total_len - 1) :
       /\ i >= heap[last.ret].weight
       /\ Route(heap, last.ret, i).i < i - heap[last.ret].weight
       /\ Routed(heap, last.ret, i)

\* the leaves below n from left to right (at most fuel levels deep)
RECURSIVE LeafWalk(_, _, _)
LeafWalk(h, n, fuel) ==
  IF n = NULL \/ fuel = 0 THEN <<>>
  ELSE IF ~Internal(h, n) THEN <<n>>
  ELSE LeafWalk(h, h[n].left, fuel - 1) \o LeafWalk(h, h[n].right, fuel - 1)

LeafSeq(h, n) == LeafWalk(h, n, Len(h))

\* height(right) - height(left) of n, counted from the child pointers
Skew(h, n) == Height(h, h[n].right) - Height(h, h[n].left)

\* a valid AVL rope with correct metadata
Sound(h, n) ==
  /\ n # NULL
  /\ AVL(h, n)
  /\ \A m \in Nodes(h, n) :
       (h_is_leaf(h, m) \/ h_is_internal(h, m)) /\ Derived(h, m)

\* rebalance has returned ret for node: no rotation, one, or two
Rotations(h, node, ret) ==
  IF ret = node THEN 0
  ELSE IF ret \in {h[node].left, h[node].right} THEN 1
  ELSE 2

\* C12: rebalance restores balance: on a node whose two children are valid
\* AVL ropes with correct metadata and whose skew is in -2..2, rebalance
\* returns the root of a subtree whose every internal node has |skew| <= 1,
\* with the same in-order leaf sequence and correct metadata; it rotates not
\* at all when the skew is in -1..1 (returning the same node), once when the
\* heavy child's skew is 0 or toward the same side, and twice when the heavy
\* child leans the opposite way.
RebalanceRestores ==
  [][(/\ last'.op = "rebalance"
      /\ Sound(heap, heap[Top(1)].left)
      /\ Sound(heap, heap[Top(1)].right)
      /\ Skew(heap, Top(1)) \in -2..2)
     => /\ Sound(heap', last'.ret)
        /\ LeafSeq(heap', last'.ret) = LeafSeq(heap, Top(1))
        /\ Skew(heap, Top(1)) \in -1..1
             => (last'.ret = Top(1) /\ heap' = heap)
        /\ (Skew(heap, Top(1)) = 2 /\ Skew(heap, heap[Top(1)].right) \in {0, 1})
             => (last'.ret = heap[Top(1)].right /\ heap'[last'.ret].left = Top(1))
        /\ (Skew(heap, Top(1)) = 2 /\ Skew(heap, heap[Top(1)].right) = -1)
             => /\ last'.ret = heap[heap[Top(1)].right].left
                /\ heap'[last'.ret].left = Top(1)
                /\ heap'[last'.ret].right = heap[Top(1)].right
        /\ (Skew(heap, Top(1)) = -2 /\ Skew(heap, heap[Top(1)].left) \in {0, -1})
             => (last'.ret = heap[Top(1)].left /\ heap'[last'.ret].right = Top(1))
        /\ (Skew(heap, Top(1)) = -2 /\ Skew(heap, heap[Top(1)].left) = 1)
             => /\ last'.ret = heap[heap[Top(1)].left].right
                /\ heap'[last'.ret].right = Top(1)
                /\ heap'[last'.ret].left = heap[Top(1)].left]_vars

\* rebalance has rotated twice: the node was right-heavy by 2, its right
\* child leaned left, and the inner grandchild is the root now
RebalanceRestoresWitness ==
  /\ last.op = "rebalance"
  /\ last.hr = last.hl + 2
  /\ last.ret \notin {last.l, last.r}
  /\ heap[last.ret].right = last.r
  /\ heap[heap[last.ret].left].left = last.l
  /\ Sound(heap, last.ret)

\* C13: rebalance treats an out-of-range skew as fatal: a call entered on a
\* node whose skew magnitude is greater than 2 ends in a fatal error and
\* never returns a subtree.  The record of a call is written when the call
\* returns, so no returned rebalance has such a skew on entry.
BadSkewIsFatal ==
  last.op = "rebalance" => Abs(last.hr - last.hl) <= 2

\* rotate_right(y) has turned heap h into g: x = y.left is the new local root
\* over y, B = x's former right child is y's left child, the outer children
\* stay, and y's former parent holds x in the slot that held y
RightShape(h, g, y, ret) ==
  LET x == h[y].left
      B == h[h[y].left].right
      parent == h[y].parent
  IN /\ ret = x
     /\ g[x].right = y
     /\ g[y].left = B
     /\ g[x].left = h[x].left
     /\ g[y].right = h[y].right
     /\ g[x].parent = parent
     /\ parent # NULL =>
          /\ h[parent].left = y => g[parent].left = x
          /\ h[parent].right = y => g[parent].right = x

\* the mirror image for rotate_left(x) with y = x.right
LeftShape(h, g, x, ret) ==
  LET y == h[x].right
      B == h[h[x].right].left
      parent == h[x].parent
  IN /\ ret = y
     /\ g[y].left = x
     /\ g[x].right = B
     /\ g[y].right = h[y].right
     /\ g[x].left = h[x].left
     /\ g[y].parent = parent
     /\ parent # NULL =>
          /\ h[parent].left = x => g[parent].left = y
          /\ h[parent].right = x => g[parent].right = y

\* C14: rotation result shape: for every node y whose left child x is present
\* (x internal or x a leaf), rotate_right(y) returns x as the new local root
\* with x.right = y, y.left = x's former right child B (absent when x had
\* none), x.left and y.right unchanged, and x.parent = y's former parent whose
\* slot that held y now holds x; rotate_left is the mirror for a node whose
\* right child is present.
RotationShape ==
  [][/\ (last'.op = "rotate_right" /\ heap[last'.l].left # NULL)
          => RightShape(heap, heap', last'.l, last'.ret)
     /\ (last'.op = "rotate_left" /\ heap[last'.l].right # NULL)
          => LeftShape(heap, heap', last'.l, last'.ret)]_vars

\* what does hold of the rotations: the result has that shape whenever the
\* child that moves up has an inner child B to hand over
RotationShapeWithB ==
  [][/\ (/\ last'.op = "rotate_right"
          /\ heap[last'.l].left # NULL
          /\ heap[heap[last'.l].left].right # NULL)
          => RightShape(heap, heap', last'.l, last'.ret)
     /\ (/\ last'.op = "rotate_left"
          /\ heap[last'.l].right # NULL
          /\ heap[heap[last'.l].right].left # NULL)
          => LeftShape(heap, heap', last'.l, last'.ret)]_vars

\* a rotation of node in heap h has given ret in heap g: the same leaves in
\* the same order, the same total_len and newlines at the root
Preserved(h, g, node, ret) ==
  /\ ret # NULL
  /\ LeafSeq(g, ret) = LeafSeq(h, node)
  /\ g[ret].total_len = h[node].total_len
  /\ g[ret].newlines = h[node].newlines

\* C15: rotations preserve text and totals: for every rotate_right(y) and
\* rotate_left(x) on a node whose required child is present, the in-order
\* leaf sequence of the returned subtree is that of the subtree before the
\* rotation, and the returned root's total_len and newlines are those of the
\* root before the rotation.
RotationPreserves ==
  [][/\ (last'.op = "rotate_right" /\ heap[last'.l].left # NULL)
          => Preserved(heap, heap', last'.l, last'.ret)
     /\ (last'.op = "rotate_left" /\ heap[last'.l].right # NULL)
          => Preserved(heap, heap', last'.l, last'.ret)]_vars

\* what does hold of the rotations: leaves and totals are preserved whenever
\* the child that moves up has an inner child B to hand over, and the totals
\* at the returned root are preserved in every case
RotationPreservesWithB ==
  [][/\ (/\ last'.op = "rotate_right"
          /\ heap[last'.l].left # NULL
          /\ heap[heap[last'.l].left].right # NULL)
          => Preserved(heap, heap', last'.l, last'.ret)
     /\ (/\ last'.op = "rotate_left"
          /\ heap[last'.l].right # NULL
          /\ heap[heap[last'.l].right].left # NULL)
          => Preserved(heap, heap', last'.l, last'.ret)
     /\ (last'.op \in {"rotate_right", "rotate_left"} /\ last'.ret # NULL)
          => /\ heap'[last'.ret].total_len = heap[last'.l].total_len
             /\ heap'[last'.ret].newlines = heap[last'.l].newlines]_vars

\* the height gap of the pair of arguments of a call
Gap(h, call) == Abs(Height(h, call.r) - Height(h, call.l))

\* the chain of calls of the concat the client makes next
Chain(h, l, r) == concat_calls(h, l, r, Len(h) + 1)

\* C16: concat terminates with bounded recursion: for any two valid AVL
\* ropes L and R, each recursive call is made on a pair whose height gap is
\* strictly smaller than the caller's, the recursion ends in the CASE-1 call
\* or in an empty-argument call (the trailing return NULL is never reached),
\* and the recursion is at most max(height(L), height(R)) deep.
ConcatTerminates ==
  [][last'.op = "concat" =>
       LET calls == Chain(heap, last'.l, last'.r) IN
         /\ calls[Len(calls)].end \in {"CASE-1", "edge"}
         /\ \A k \in 1..(Len(calls) - 1) :
              Gap(heap, calls[k + 1]) < Gap(heap, calls[k])
         /\ Len(calls) - 1 <= MAX(Height(heap, last'.l), Height(heap, last'.r))
         /\ (last'.l # NULL /\ last'.r # NULL) =>
              (last'.ret # NULL /\ calls[Len(calls)].end = "CASE-1")]_vars

\* a join of a leaf into a rope of height 4 whose left child has height 3 has
\* returned: two recursive calls down the left spine, the new node two levels
\* or more below the returned root
ConcatTerminatesWitness ==
  /\ last.op = "concat"
  /\ last.hl = 1
  /\ last.hr = 4
  /\ last.ret # NULL
  /\ heap[last.l].parent = Len(heap)
  /\ heap[Len(heap)].parent # NULL
  /\ heap[heap[Len(heap)].parent].parent # NULL
  /\ Height(heap, last.ret) = 4

\* the nodes from n down its left children, and down its right children
RECURSIVE SpineWalk(_, _, _, _)
SpineWalk(h, n, side, fuel) ==
  IF n = NULL \/ fuel = 0 THEN {}
  ELSE {n} \cup SpineWalk(h, IF side = "left" THEN h[n].left ELSE h[n].right,
                          side, fuel - 1)

LeftSpine(h, n) == SpineWalk(h, n, "left", Len(h))

RightSpine(h, n) == SpineWalk(h, n, "right", Len(h))

\* the nodes concat(l, r) may write to, besides the node it allocates: the
\* left spine of r when r is higher by 2 or more, the right spine of l when l
\* is higher by 2 or more, none otherwise
Walked(h, l, r) ==
  IF l = NULL \/ r = NULL THEN {}
  ELSE IF Height(h, r) - Height(h, l) >= 2 THEN LeftSpine(h, r)
  ELSE IF Height(h, l) - Height(h, r) >= 2 THEN RightSpine(h, l)
  ELSE {}

\* node n has the same children, text and metadata in heaps h and g
SameButParent(h, g, n) ==
  [g[n] EXCEPT !.parent = NULL] = [h[n] EXCEPT !.parent = NULL]

\* C17: concat's side effects are confined to the walked spine: in
\* concat(L, R) with R dominant every node that is neither on R's left spine
\* nor the newly allocated node keeps its left child, right child, text and
\* metadata (only its parent back-reference may change); symmetrically for L
\* dominant and L's right spine.  No leaf's text is ever modified.
SpineConfinement ==
  [][last'.op = "concat" =>
       /\ \A n \in (1..Len(heap)) \ Walked(heap, last'.l, last'.r) :
            SameButParent(heap, heap', n)
       /\ \A n \in 1..Len(heap) : heap'[n].str = heap[n].str
       /\ Len(heap') <= Len(heap) + 1]_vars

\* a leaf has been joined into a rope two levels higher: the join rotated
\* twice at the root of R, and the client holds another rope beside it
SpineConfinementWitness ==
  /\ last.op = "concat"
  /\ last.hl = 1
  /\ last.hr = 3
  /\ last.ret \notin {NULL, last.r, Len(heap)}
  /\ heap[last.ret].right = last.r
  /\ heap[last.ret].left = Len(heap)
  /\ Len(ropes) >= 2
  /\ Top(1) = last.ret

\* below n every child names its parent in its parent field
ParentsBelow(h, n) ==
  \A m \in Nodes(h, n) :
    /\ h[m].left # NULL => h[h[m].left].parent = m
    /\ h[m].right # NULL => h[h[m].right].parent = m

\* C18: parent back-references agree with child slots: after every completed
\* concat on parentless rope roots and after every builder step the returned
\* root has no parent and, for every internal node n reachable from it,
\* n.left.parent = n and n.right.parent = n.
ParentsAgree ==
  \A rope \in Produced :
    heap[rope].parent = NULL /\ ParentsBelow(heap, rope)

\* a join that rotated at the root of the higher rope: the returned root is
\* a node that had a parent before, and an inner subtree has changed hands
ParentsAgreeWitness ==
  /\ last.op = "concat"
  /\ Abs(last.hr - last.hl) >= 2
  /\ last.hl >= 1 /\ last.hr >= 1
  /\ last.ret \in Held
  /\ last.ret \notin {last.l, last.r, Len(heap)}
  /\ heap[last.ret].parent = NULL
  /\ Internal(heap, heap[last.ret].left)
  /\ Internal(heap, heap[last.ret].right)
  /\ ParentsBelow(heap, last.ret)

\* the number of child paths that start at n (cut at fuel levels)
RECURSIVE Paths(_, _, _)
Paths(h, n, fuel) ==
  IF n = NULL \/ fuel = 0 THEN 0
  ELSE 1 + Paths(h, h[n].left, fuel - 1) + Paths(h, h[n].right, fuel - 1)

\* every node below n is reached by exactly one child path: no node with two
\* owners and no cycle of child links
TreeShaped(h, n) == Paths(h, n, Len(h) + 1) = Cardinality(Nodes(h, n))

\* C20: tree-shaped ownership and node conservation: for node-disjoint
\* non-empty valid ropes L and R, the result of concat(L, R) is a tree in
\* which every node of L and of R is reachable from the result root by
\* exactly one child path, together with exactly one newly allocated
\* internal node; no node has two owners, no child link forms a cycle, and
\* no pre-existing node is detached by rebalancing.
NodeConservation ==
  [][(/\ last'.op = "concat"
      /\ last'.l # NULL /\ last'.r # NULL
      /\ Nodes(heap, last'.l) \cap Nodes(heap, last'.r) = {}
      /\ Sound(heap, last'.l) /\ Sound(heap, last'.r))
     => /\ Len(heap') = Len(heap) + 1
        /\ h_is_internal(heap', Len(heap'))
        /\ Nodes(heap', last'.ret)
             = Nodes(heap, last'.l) \cup Nodes(heap, last'.r) \cup {Len(heap')}
        /\ TreeShaped(heap', last'.ret)
        /\ \A i, j \in 1..Len(ropes') :
             i # j => Nodes(heap', ropes'[i]) \cap Nodes(heap', ropes'[j]) = {}]_vars

\* a leaf has been joined to the right of a rope of height 4, two levels or
\* more down its right spine: the result is a tree of all six leaves and
\* five internal nodes
NodeConservationWitness ==
  /\ last.op = "concat"
  /\ last.hl = 4
  /\ last.hr = 1
  /\ last.ret = last.l
  /\ heap[heap[Len(heap)].parent].parent # NULL
  /\ Cardinality(Nodes(heap, last.ret)) = 11
  /\ Len(heap) = 11
  /\ TreeShaped(heap, last.ret)

\* C19: the rightmost-append builder agrees with the join-based builder:
\* for every sequence of chunks, folding them with append_node yields a rope
\* that materializes to the same text as folding them with
\* root = concat(root, leaf), satisfies the AVL property and has correct
\* metadata at every node.
BuildersAgree ==
  /\ print_text(heap, appended) = print_text(heap, root)
  /\ appended # NULL => Sound(heap, appended)
  /\ (appended = NULL) = (root = NULL)

\* seven chunks appended: the loop of append_node has rotated on its way up
\* (the rope is 4 high, not 7) and the two builders hold the same text
BuildersAgreeWitness ==
  /\ last.op = "append_node"
  /\ Cardinality(Leaves(heap)) = 14
  /\ Height(heap, appended) = 4
  /\ Sound(heap, appended)
  /\ Len(print_text(heap, appended)) >= 6
  /\ print_text(heap, appended) = print_text(heap, root)

\* C21: height growth of a join is at most one: for any two non-empty valid
\* AVL ropes L and R, height(concat(L, R)) is max(height(L), height(R)) or
\* that plus one; every rebalance call made inside concat sees a skew in
\* -2..2 and every rotation it invokes finds the child it needs.
JoinHeightGrowth ==
  [][(/\ last'.op = "concat"
      /\ last'.l # NULL /\ last'.r # NULL
      /\ Sound(heap, last'.l) /\ Sound(heap, last'.r))
     => /\ Height(heap', last'.ret)
             \in {MAX(Height(heap, last'.l), Height(heap, last'.r)),
                  MAX(Height(heap, last'.l), Height(heap, last'.r)) + 1}
        /\ \A k \in 1..Len(concat_rebalances(heap, last'.l, last'.r)) :
             /\ concat_rebalances(heap, last'.l, last'.r)[k].skew \in -2..2
             /\ concat_rebalances(heap, last'.l, last'.r)[k].heavy \in -1..1
             /\ concat_rebalances(heap, last'.l, last'.r)[k].found]_vars

\* a leaf has been joined to the right of a rope of height 3: rebalance met
\* the skew 2 at the root of L and rotated twice, the result is 3 high
JoinHeightGrowthWitness ==
  /\ last.op = "concat"
  /\ last.hl = 3
  /\ last.hr = 1
  /\ last.ret \notin {NULL, last.l, last.r, Len(heap)}
  /\ heap[last.ret].left = last.l
  /\ heap[last.ret].right = Len(heap)
  /\ Height(heap, last.ret) = 3

\* the positions 0..len of the text of leaf n, the terminator included
InsideText(h, n) == 0..string_length(h[n].str)

\* C22: the structural dump is read-only and stays inside leaf text:
\* print_tree on any rope changes no node field, and for a leaf's preview it
\* reads only positions 0..len of that leaf's text, for leaves of every
\* length, shorter than 20 characters included.
DumpStaysInText ==
  [][last'.op = "print_tree" =>
       /\ heap' = heap
       /\ \A k \in 1..Len(last'.dump) :
            last'.dump[k].reads \subseteq InsideText(heap, last'.dump[k].node)]_vars

\* what does hold of the dump: no node is written, every node of the rope
\* gets one line, and the preview of a leaf of 20 characters or more reads
\* inside its text
DumpReadOnly ==
  [][last'.op = "print_tree" =>
       /\ heap' = heap
       /\ {last'.dump[k].node : k \in 1..Len(last'.dump)} = Nodes(heap, last'.l)
       /\ \A k \in 1..Len(last'.dump) :
            heap[last'.dump[k].node].total_len >= PreviewLen
              => last'.dump[k].reads \subseteq InsideText(heap, last'.dump[k].node)]_vars

====
